---- MODULE Spec2Model ----
(***************************************************************************)
(* Model of the makeflow resource-monitor hook                             *)
(* (makeflow/src/makeflow_module_resource_monitor.c).                      *)
(*                                                                         *)
(* C strings are sequences of one-character strings; the NULL pointer is   *)
(* the one-element sequence <<"NULL">>, which is no C string of the model. *)
(***************************************************************************)
EXTENDS Integers, Sequences, FiniteSets, TLC

VARIABLES
    pc,        \* lifecycle of the hook: "start", "running", "failed", "destroyed"
    monitor,   \* the process-wide struct makeflow_monitor (NoMonitor before create)
    queue,     \* features advertised by the batch queue of the node
    node,      \* struct dag_node: nodeid, state, resources_measured, resource_request
    task,      \* struct batch_task of the node's current attempt
    category,  \* the node's category: running aggregate and allocation ladder
    fs,        \* local filesystem: path |-> file content
    dag_files, \* the workflow file table, as far as dag_start fills it
    call,      \* the hook call that produced this state, with its arguments and result
    emitted,   \* state changes written to the makeflow log by that call, in order
    renames    \* rename(2) calls made by that call, in order

vars == <<pc, monitor, queue, node, task, category, fs, dag_files, call, emitted,
          renames>>

----------------------------------------------------------------------------
(* Bounds of the model *)

MaxMeasure == 1     \* summaries carry a measured value in 1..MaxMeasure
MaxRetry == 1       \* runtime retries of a failed node
LadderTop == 1      \* highest allocation label of the category's ladder

----------------------------------------------------------------------------
(* Strings *)

NULL == <<"NULL">>

S_dot == <<".">>
S_logs == <<"l", "g">>
S_nested == <<"a", "/", "b">>
S_pct_dir == <<"%", "%">>
S_fmt_user == <<"r", "-", "%", "%">>
S_fmt_plain == <<"r">>
S_fmt_twice == <<"%", "%", "-", "%", "%">>
S_exe_path == <<"/", "b", "/", "r", "m">>
S_wrapper_path == <<".", "/", "r", "m", "_", "w">>

DEFAULT_MONITOR_LOG_FORMAT ==
    <<"r", "e", "s", "o", "u", "r", "c", "e", "-", "r", "u", "l", "e", "-", "%", "%">>

S_cctools_monitor ==
    <<"c", "c", "t", "o", "o", "l", "s", "-", "m", "o", "n", "i", "t", "o", "r">>

EXT_summary == <<".", "s", "u", "m", "m", "a", "r", "y">>
EXT_series == <<".", "s", "e", "r", "i", "e", "s">>
EXT_files == <<".", "f", "i", "l", "e", "s">>

Digits == <<"0", "1", "2", "3", "4", "5", "6", "7", "8", "9">>

RECURSIVE FormatNat(_)
FormatNat(v) ==
    IF v < 10 THEN <<Digits[v + 1]>>
    ELSE FormatNat(v \div 10) \o <<Digits[(v % 10) + 1]>>

\* string_format("%d", v)
FormatInt(v) == IF v < 0 THEN <<"-">> \o FormatNat(0 - v) ELSE FormatNat(v)

RECURSIVE ReplaceFrom(_, _, _)
ReplaceFrom(str, i, replace) ==
    IF i > Len(str) THEN <<>>
    ELSE IF str[i] = "%" /\ i + 1 <= Len(str) /\ str[i + 1] = "%"
         THEN replace \o ReplaceFrom(str, i + 2, replace)
         ELSE <<str[i]>> \o ReplaceFrom(str, i + 1, replace)

\* every %% marker of str, scanned left to right, replaced by `replace`
string_replace_percents(str, replace) == ReplaceFrom(str, 1, replace)

RECURSIVE MarkersFrom(_, _)
MarkersFrom(str, i) ==
    IF i > Len(str) THEN 0
    ELSE IF str[i] = "%" /\ i + 1 <= Len(str) /\ str[i + 1] = "%"
         THEN 1 + MarkersFrom(str, i + 2)
         ELSE MarkersFrom(str, i + 1)

\* number of %% markers string_replace_percents finds in str
CountMarkers(str) == MarkersFrom(str, 1)

RECURSIVE LastSlash(_, _)
LastSlash(path, i) ==
    IF i = 0 THEN 0
    ELSE IF path[i] = "/" THEN i
    ELSE LastSlash(path, i - 1)

\* the final path component: what follows the last '/'
path_basename(path) == SubSeq(path, LastSlash(path, Len(path)) + 1, Len(path))

----------------------------------------------------------------------------
(* Hook results, queue features, node states *)

MAKEFLOW_HOOK_SUCCESS == "MAKEFLOW_HOOK_SUCCESS"
MAKEFLOW_HOOK_FAILURE == "MAKEFLOW_HOOK_FAILURE"

Features == {"remote_rename", "output_directories"}

batch_queue_supports_feature(q, feature) == feature \in q

NodeIds == {7, 12}

\* the node of the workflow whose life the state machine follows
DagNodeId == CHOOSE id \in NodeIds : id >= 10

----------------------------------------------------------------------------
(* Configuration arguments (struct jx) *)

\* A value of the jx object: a string, an integer, or no such key.
JxString(s) == [type |-> "string", s |-> s, i |-> 0]
JxInteger(i) == [type |-> "integer", s |-> <<>>, i |-> i]
JxAbsent == [type |-> "absent", s |-> <<>>, i |-> 0]

LogDirArgs ==
    {JxAbsent} \cup {JxString(s) : s \in {<<>>, S_dot, S_logs, S_nested, S_pct_dir}}
LogFormatArgs ==
    {JxAbsent} \cup {JxString(s) : s \in {S_fmt_user, S_fmt_plain, S_fmt_twice}}
IntervalArgs == {JxAbsent} \cup {JxInteger(i) : i \in {0 - 1, 0, 1, 5}}
EnableArgs == {JxAbsent} \cup {JxInteger(i) : i \in {0, 1, 2}}

\* every configuration create is tried on
Args == [resource_monitor_log_dir : LogDirArgs,
         resource_monitor_log_format : LogFormatArgs,
         resource_monitor_interval : IntervalArgs,
         resource_monitor_enable_time_series : EnableArgs,
         resource_monitor_enable_list_files : EnableArgs]

\* the configurations whose workflows are followed to their end
RunArgs == [resource_monitor_log_dir : {JxAbsent, JxString(S_dot), JxString(S_logs)},
            resource_monitor_log_format : {JxAbsent, JxString(S_fmt_plain)},
            resource_monitor_interval : {JxAbsent} \cup {JxInteger(i) : i \in {0 - 1, 0}},
            resource_monitor_enable_time_series : {JxAbsent, JxInteger(1), JxInteger(2)},
            resource_monitor_enable_list_files : {JxAbsent, JxInteger(1)}]

\* the string under key, NULL when the key is absent or holds no string
jx_lookup_string(args, key) ==
    IF args[key].type = "string" THEN args[key].s ELSE NULL

\* the integer under key, 0 when the key is absent or holds no integer
jx_lookup_integer(args, key) ==
    IF args[key].type = "integer" THEN args[key].i ELSE 0

NoMonitor == [allocated |-> FALSE]

makeflow_monitor_create ==
    [allocated |-> TRUE,
     enable_debug |-> 0,
     enable_time_series |-> 0,
     enable_list_files |-> 0,
     interval |-> 1,
     log_dir |-> NULL,
     log_format |-> NULL,
     log_prefix |-> NULL,
     exe |-> NULL,
     exe_remote |-> NULL]

\* lines 61-71: the options copied into the fresh record
create_options(args) ==
    LET m0 == makeflow_monitor_create
        m1 == IF jx_lookup_string(args, "resource_monitor_log_dir") # NULL
              THEN [m0 EXCEPT !.log_dir = jx_lookup_string(args, "resource_monitor_log_dir")]
              ELSE m0
        m2 == IF jx_lookup_string(args, "resource_monitor_log_format") # NULL
              THEN [m1 EXCEPT !.log_format =
                                  jx_lookup_string(args, "resource_monitor_log_format")]
              ELSE m1
        m3 == IF jx_lookup_integer(args, "resource_monitor_interval") # 0
              THEN [m2 EXCEPT !.interval =
                                  jx_lookup_integer(args, "resource_monitor_interval")]
              ELSE m2
    IN  [m3 EXCEPT !.enable_time_series =
                       jx_lookup_integer(args,
                                         "resource_monitor_enable_time_series"),
                   !.enable_list_files =
                       jx_lookup_integer(args, "resource_monitor_enable_list_files")]

\* create with log_prefix built without the '/' between directory and format
create_result_no_separator(args, located) ==
    LET m == create_options(args)
    IN  IF m.log_dir = NULL
        THEN [monitor |-> m, ret |-> MAKEFLOW_HOOK_FAILURE]
        ELSE LET mf == IF m.log_format = NULL
                       THEN [m EXCEPT !.log_format = DEFAULT_MONITOR_LOG_FORMAT]
                       ELSE m
                 mp == [mf EXCEPT !.log_prefix = mf.log_dir \o mf.log_format]
             IN  IF mp.interval < 1
                 THEN [monitor |-> mp, ret |-> MAKEFLOW_HOOK_FAILURE]
                 ELSE LET me == [mp EXCEPT !.exe = located]
                      IN  IF me.exe = NULL
                          THEN [monitor |-> me, ret |-> MAKEFLOW_HOOK_FAILURE]
                          ELSE [monitor |-> [me EXCEPT !.exe_remote = S_cctools_monitor],
                                ret |-> MAKEFLOW_HOOK_SUCCESS]

\* lines 73-96: validation; the record left behind and the value returned.
\* located is the result of resource_monitor_locate(NULL).
create_result(args, located) ==
    LET m == create_options(args)
    IN  IF m.log_dir = NULL
        THEN [monitor |-> m, ret |-> MAKEFLOW_HOOK_FAILURE]
        ELSE LET mf == IF m.log_format = NULL
                       THEN [m EXCEPT !.log_format = DEFAULT_MONITOR_LOG_FORMAT]
                       ELSE m
                 mp == [mf EXCEPT !.log_prefix = mf.log_dir \o <<"/">> \o mf.log_format]
             IN  IF mp.interval < 1
                 THEN [monitor |-> mp, ret |-> MAKEFLOW_HOOK_FAILURE]
                 ELSE LET me == [mp EXCEPT !.exe = located]
                      IN  IF me.exe = NULL
                          THEN [monitor |-> me, ret |-> MAKEFLOW_HOOK_FAILURE]
                          ELSE [monitor |-> [me EXCEPT !.exe_remote = S_cctools_monitor],
                                ret |-> MAKEFLOW_HOOK_SUCCESS]

----------------------------------------------------------------------------
(* Collaborators of the hook: category model, summaries, filesystem, DAG log *)

CATEGORY_ALLOCATION_FIRST == 0
CATEGORY_ALLOCATION_ERROR == 0 - 1

Labels == CATEGORY_ALLOCATION_FIRST .. LadderTop

\* the next label of the category's ladder, or the error sentinel when the
\* ladder is exhausted; without overflow the label is kept
category_next_label(c, current_label, resource_overflow) ==
    IF resource_overflow
    THEN IF current_label < c.top THEN current_label + 1 ELSE CATEGORY_ALLOCATION_ERROR
    ELSE current_label

\* fold one measurement into the running aggregate
category_accumulate_summary(c, measured) ==
    [c EXCEPT !.count = @ + 1, !.total = @ + measured[1]]

\* a struct rmsummary pointer: <<>> is NULL, <<v>> a summary measuring v
NoSummary == <<>>

Measurements == 1 .. MaxMeasure

SummaryFile(v) == [kind |-> "summary", value |-> v]
GarbageFile == [kind |-> "garbage", value |-> 0]
DataFile == [kind |-> "data", value |-> 0]

\* The file a relative path names: a leading "./" names the working directory,
\* so "./x" and "x" are one file.  The table of files is keyed by resolved path.
RECURSIVE path_resolve(_)
path_resolve(path) ==
    IF Len(path) >= 2 /\ path[1] = "." /\ path[2] = "/"
    THEN path_resolve(SubSeq(path, 3, Len(path)))
    ELSE path

FileExists(files, path) == path_resolve(path) \in DOMAIN files

\* NULL when the file is absent or does not parse
rmsummary_parse_file_single(files, name) ==
    IF FileExists(files, name) /\ files[path_resolve(name)].kind = "summary"
    THEN <<files[path_resolve(name)].value>>
    ELSE NoSummary

\* rename(2): fails when the source is missing or the environment refuses
\* (ok = FALSE); when both paths name one file it succeeds and changes nothing
rename(files, old_path, new_path, ok) ==
    LET old == path_resolve(old_path)
        new == path_resolve(new_path)
    IN  IF old \in DOMAIN files /\ ok
        THEN [ok |-> TRUE,
              fs |-> [p \in (DOMAIN files \ {old}) \cup {new} |->
                         IF p = new THEN files[old] ELSE files[p]]]
        ELSE [ok |-> FALSE, fs |-> files]

WriteFile(files, path, content) ==
    [p \in DOMAIN files \cup {path_resolve(path)} |->
        IF p = path_resolve(path) THEN content ELSE files[p]]

FileChange(name, state) == [kind |-> "file", name |-> name, node |-> 0, state |-> state]
NodeChange(id, state) == [kind |-> "node", name |-> <<>>, node |-> id, state |-> state]

\* makeflow_log_file_state_change
makeflow_log_file_state_change(log, name, state) == Append(log, FileChange(name, state))

\* makeflow_log_state_change
makeflow_log_state_change(log, n, state) == Append(log, NodeChange(n.nodeid, state))

\* struct batch_task as the runtime hands it to the hook, and its info after the run
S_user_command == <<"u">>
S_category_name == <<"c", "1">>

EXIT_OK == "EXIT_OK"
RM_OVERFLOW == "RM_OVERFLOW"
RM_TASK_ERROR == "RM_TASK_ERROR"
ExitCodes == {EXIT_OK, RM_OVERFLOW, RM_TASK_ERROR}

NoInfo == [done |-> FALSE, disk_allocation_exhausted |-> FALSE, exit_code |-> EXIT_OK]

NoMonitorArgs == [executable |-> NULL, output_prefix |-> NULL, limits |-> 0,
                  extra_options |-> NULL, debug |-> 0, time_series |-> 0, list_files |-> 0]

FreshTask == [command |-> S_user_command, inputs |-> {}, outputs |-> {},
              monitor_args |-> NoMonitorArgs, info |-> NoInfo]

DAG_FILE_TYPE_GLOBAL == "GLOBAL"
DAG_FILE_TYPE_INTERMEDIATE == "INTERMEDIATE"
DAG_FILE_TYPE_TEMP == "TEMP"

TaskFile(local, remote, type) == [local |-> local, remote |-> remote, type |-> type]

\* resource_monitor_write_command: the sidecar invocation as a shell command
resource_monitor_write_command(a) ==
    a.executable
    \o (IF a.debug # 0 THEN <<" ", "-", "d">> ELSE <<>>)
    \o (IF a.time_series # 0 THEN <<" ", "-", "s">> ELSE <<>>)
    \o (IF a.list_files # 0 THEN <<" ", "-", "f">> ELSE <<>>)
    \o <<" ", "-", "O", " ">> \o a.output_prefix
    \o <<" ">> \o a.extra_options \o <<" ", "-", "-">>

\* batch_task_wrap_command: the task's command becomes the operand of cmd
batch_task_wrap_command(t, cmd) == [t EXCEPT !.command = cmd \o <<" ">> \o t.command]

----------------------------------------------------------------------------
(* The hook *)

\* the prefix built from the last digit of the node's id
set_log_prefix_last_digit(mon, n) ==
    LET nodeid == FormatInt(n.nodeid % 10)
    IN  string_replace_percents(mon.log_prefix, nodeid)

\* lines 132-139
set_log_prefix(mon, n) ==
    LET nodeid == FormatInt(n.nodeid)
    IN  string_replace_percents(mon.log_prefix, nodeid)

\* dag_start that takes create_dir's result as it is, without the negation
dag_start_unnegated_create_dir(mon, table, mk, cd) ==
    LET table1 == table \cup {mon.exe}
        result0 == IF mk = "ok" THEN 0 ELSE 0 - 1
        result == IF result0 = 0 - 1 /\ mk = "ENOENT" THEN cd ELSE result0
    IN  IF result = 0
        THEN [ret |-> MAKEFLOW_HOOK_SUCCESS,
              dag_files |-> table1 \cup {mon.log_dir},
              emitted |-> makeflow_log_file_state_change(<<>>, mon.log_dir, "EXISTS")]
        ELSE [ret |-> MAKEFLOW_HOOK_SUCCESS, dag_files |-> table1, emitted |-> <<>>]

\* lines 112-130.  mk is the outcome of mkdir(log_dir): "ok" or the errno it
\* sets; cd is what create_dir returns (1 on success, 0 on failure).
dag_start(mon, table, mk, cd) ==
    LET table1 == table \cup {mon.exe}
        result0 == IF mk = "ok" THEN 0 ELSE 0 - 1
        result == IF result0 = 0 - 1 /\ mk = "ENOENT"
                  THEN (IF cd # 0 THEN 0 ELSE 1)
                  ELSE result0
    IN  IF result = 0
        THEN [ret |-> MAKEFLOW_HOOK_SUCCESS,
              dag_files |-> table1 \cup {mon.log_dir},
              emitted |-> makeflow_log_file_state_change(<<>>, mon.log_dir, "EXISTS")]
        ELSE [ret |-> MAKEFLOW_HOOK_SUCCESS, dag_files |-> table1, emitted |-> <<>>]

\* the outputs declared under the prefix the sidecar is given
declared_outputs_under_basename(mon, log_prefix) ==
    {TaskFile(path_basename(log_prefix) \o EXT_summary, NULL,
              DAG_FILE_TYPE_INTERMEDIATE)}
    \cup (IF mon.enable_time_series # 0
          THEN {TaskFile(path_basename(log_prefix) \o EXT_series, NULL,
                         DAG_FILE_TYPE_INTERMEDIATE)}
          ELSE {})
    \cup (IF mon.enable_list_files # 0
          THEN {TaskFile(path_basename(log_prefix) \o EXT_files, NULL,
                         DAG_FILE_TYPE_INTERMEDIATE)}
          ELSE {})

\* lines 160-179: the outputs declared on the task
declared_outputs(mon, log_prefix) ==
    {TaskFile(log_prefix \o EXT_summary, NULL, DAG_FILE_TYPE_INTERMEDIATE)}
    \cup (IF mon.enable_time_series # 0
          THEN {TaskFile(log_prefix \o EXT_series, NULL, DAG_FILE_TYPE_INTERMEDIATE)}
          ELSE {})
    \cup (IF mon.enable_list_files # 0
          THEN {TaskFile(log_prefix \o EXT_files, NULL, DAG_FILE_TYPE_INTERMEDIATE)}
          ELSE {})

\* the local path of the sidecar whatever the queue renames
submit_executable_always_local(mon, q) == mon.exe

\* lines 152-158: the executable the wrapped command runs
submit_executable(mon, q) ==
    IF batch_queue_supports_feature(q, "remote_rename")
    THEN <<".", "/">> \o mon.exe_remote
    ELSE mon.exe

\* lines 183-188 and 273-278: the prefix the sidecar writes under
output_prefix_for(q, log_prefix) ==
    IF batch_queue_supports_feature(q, "output_directories")
    THEN log_prefix
    ELSE path_basename(log_prefix)

\* node_submit that installs whatever wrapper generation returned
node_submit_unchecked_wrapper(mon, n, q, t, wrapper) ==
    LET log_prefix == set_log_prefix(mon, n)
        output_prefix == output_prefix_for(q, log_prefix)
        margs == [executable |-> submit_executable(mon, q),
                  output_prefix |-> output_prefix,
                  limits |-> n.resource_request,
                  extra_options |-> <<"-", "V", " ", "'", "c", "a", "t", "e", "g", "o", "r", "y", ":">> \o S_category_name \o <<"'">>,
                  debug |-> mon.enable_debug, time_series |-> mon.enable_time_series,
                  list_files |-> mon.enable_list_files]
        t1 == [t EXCEPT !.inputs = @ \cup {TaskFile(mon.exe, mon.exe_remote,
                                                    DAG_FILE_TYPE_GLOBAL)},
                        !.outputs = @ \cup declared_outputs(mon, log_prefix),
                        !.monitor_args = margs]
    IN  [ret |-> MAKEFLOW_HOOK_SUCCESS,
         task |-> [t1 EXCEPT !.command = wrapper,
                             !.inputs = @ \cup {TaskFile(wrapper, wrapper,
                                                         DAG_FILE_TYPE_TEMP)}],
         emitted |-> makeflow_log_file_state_change(<<>>, wrapper, "EXISTS")]

\* lines 141-216.  wrapper is what batch_wrapper_write returns: a path or NULL.
node_submit(mon, n, q, t, wrapper) ==
    LET exe_in == TaskFile(mon.exe, mon.exe_remote, DAG_FILE_TYPE_GLOBAL)
        executable == submit_executable(mon, q)
        log_prefix == set_log_prefix(mon, n)
        outs == declared_outputs(mon, log_prefix)
        extra_options == <<"-", "V", " ", "'", "c", "a", "t", "e", "g", "o", "r", "y", ":">> \o S_category_name \o <<"'">>
        output_prefix == output_prefix_for(q, log_prefix)
        margs == [executable |-> executable, output_prefix |-> output_prefix,
                  limits |-> n.resource_request, extra_options |-> extra_options,
                  debug |-> mon.enable_debug, time_series |-> mon.enable_time_series,
                  list_files |-> mon.enable_list_files]
        cmd == resource_monitor_write_command(margs)
        t1 == [t EXCEPT !.inputs = @ \cup {exe_in}, !.outputs = @ \cup outs,
                        !.monitor_args = margs]
        t2 == batch_task_wrap_command(t1, cmd)
    IN  IF wrapper # NULL
        THEN [ret |-> MAKEFLOW_HOOK_SUCCESS,
              task |-> [t2 EXCEPT !.command = wrapper,
                                  !.inputs = @ \cup {TaskFile(wrapper, wrapper,
                                                              DAG_FILE_TYPE_TEMP)}],
              emitted |-> makeflow_log_file_state_change(<<>>, wrapper, "EXISTS")]
        ELSE [ret |-> MAKEFLOW_HOOK_FAILURE, task |-> t2, emitted |-> <<>>]

\* a rename of the relocation that is still made after an earlier one failed
move_one_keeps_going(st, enabled, old_path, new_path, ok) ==
    IF ~enabled
    THEN st
    ELSE LET r == rename(st.fs, old_path, new_path, ok)
         IN  [ret |-> IF r.ok THEN st.ret ELSE MAKEFLOW_HOOK_FAILURE,
              fs |-> r.fs,
              renames |-> Append(st.renames,
                                 [old |-> old_path, new |-> new_path, ok |-> r.ok])]

\* one rename of the relocation, skipped once an earlier one has failed
move_one(st, enabled, old_path, new_path, ok) ==
    IF st.ret = MAKEFLOW_HOOK_FAILURE \/ ~enabled
    THEN st
    ELSE LET r == rename(st.fs, old_path, new_path, ok)
         IN  [ret |-> IF r.ok THEN MAKEFLOW_HOOK_SUCCESS ELSE MAKEFLOW_HOOK_FAILURE,
              fs |-> r.fs,
              renames |-> Append(st.renames,
                                 [old |-> old_path, new |-> new_path, ok |-> r.ok])]

\* relocation with the test of the queue's output_directories feature left out
move_output_always(mon, n, q, files, oks) ==
    LET st0 == [ret |-> MAKEFLOW_HOOK_SUCCESS, fs |-> files, renames |-> <<>>]
        log_prefix == set_log_prefix(mon, n)
        output_prefix == path_basename(log_prefix)
    IN  IF log_prefix = output_prefix
        THEN st0
        ELSE LET st1 == move_one(st0, TRUE, output_prefix \o EXT_summary,
                                 log_prefix \o EXT_summary, oks[1])
                 st2 == move_one(st1, mon.enable_time_series # 0,
                                 output_prefix \o EXT_series,
                                 log_prefix \o EXT_series, oks[2])
             IN  move_one(st2, mon.enable_list_files # 0,
                          output_prefix \o EXT_files,
                          log_prefix \o EXT_files, oks[3])

\* relocation that moves the summary and leaves the other artifacts behind
move_output_summary_only(mon, n, q, files, oks) ==
    LET st0 == [ret |-> MAKEFLOW_HOOK_SUCCESS, fs |-> files, renames |-> <<>>]
    IN  IF ~batch_queue_supports_feature(q, "output_directories")
        THEN LET log_prefix == set_log_prefix(mon, n)
                 output_prefix == path_basename(log_prefix)
             IN  IF log_prefix = output_prefix
                 THEN st0
                 ELSE move_one(st0, TRUE, output_prefix \o EXT_summary,
                               log_prefix \o EXT_summary, oks[1])
        ELSE st0

\* relocation that moves .series under the file-list flag
move_output_series_by_list_flag(mon, n, q, files, oks) ==
    LET st0 == [ret |-> MAKEFLOW_HOOK_SUCCESS, fs |-> files, renames |-> <<>>]
    IN  IF ~batch_queue_supports_feature(q, "output_directories")
        THEN LET log_prefix == set_log_prefix(mon, n)
                 output_prefix == path_basename(log_prefix)
             IN  IF log_prefix = output_prefix
                 THEN st0
                 ELSE LET st1 == move_one(st0, TRUE, output_prefix \o EXT_summary,
                                          log_prefix \o EXT_summary, oks[1])
                          st2 == move_one(st1, mon.enable_list_files # 0,
                                          output_prefix \o EXT_series,
                                          log_prefix \o EXT_series, oks[2])
                      IN  move_one(st2, mon.enable_list_files # 0,
                                   output_prefix \o EXT_files,
                                   log_prefix \o EXT_files, oks[3])
        ELSE st0

\* lines 218-268.  oks[i] tells whether the environment lets the i-th possible
\* rename (.summary, .series, .files) succeed when its source exists.
makeflow_monitor_move_output_if_needed(mon, n, q, files, oks) ==
    LET st0 == [ret |-> MAKEFLOW_HOOK_SUCCESS, fs |-> files, renames |-> <<>>]
    IN  IF ~batch_queue_supports_feature(q, "output_directories")
        THEN LET log_prefix == set_log_prefix(mon, n)
                 output_prefix == path_basename(log_prefix)
             IN  IF log_prefix = output_prefix
                 THEN st0
                 ELSE LET st1 == move_one(st0, TRUE, output_prefix \o EXT_summary,
                                          log_prefix \o EXT_summary, oks[1])
                          st2 == move_one(st1, mon.enable_time_series # 0,
                                          output_prefix \o EXT_series,
                                          log_prefix \o EXT_series, oks[2])
                      IN  move_one(st2, mon.enable_list_files # 0,
                                   output_prefix \o EXT_files,
                                   log_prefix \o EXT_files, oks[3])
        ELSE st0

\* node_end that looks for the summary under the full per-node prefix
node_end_reads_log_prefix(mon, n, q, c, files, oks) ==
    LET log_prefix == set_log_prefix(mon, n)
        summary_name == log_prefix \o EXT_summary
        measured == rmsummary_parse_file_single(files, summary_name)
        n1 == [n EXCEPT !.resources_measured = measured]
    IN  IF n1.resources_measured = NoSummary
        THEN [ret |-> MAKEFLOW_HOOK_SUCCESS, node |-> n1, category |-> c,
              fs |-> files, renames |-> <<>>, read |-> summary_name]
        ELSE LET c1 == category_accumulate_summary(c, n1.resources_measured)
                 mv == makeflow_monitor_move_output_if_needed(mon, n1, q, files, oks)
             IN  [ret |-> mv.ret, node |-> n1, category |-> c1,
                  fs |-> mv.fs, renames |-> mv.renames, read |-> summary_name]

\* node_end that folds the measurement into the category only once the
\* relocation has succeeded
node_end_accumulates_after_relocation(mon, n, q, c, files, oks) ==
    LET log_prefix == set_log_prefix(mon, n)
        output_prefix == output_prefix_for(q, log_prefix)
        summary_name == output_prefix \o EXT_summary
        measured == rmsummary_parse_file_single(files, summary_name)
        n1 == [n EXCEPT !.resources_measured = measured]
    IN  IF n1.resources_measured = NoSummary
        THEN [ret |-> MAKEFLOW_HOOK_SUCCESS, node |-> n1, category |-> c,
              fs |-> files, renames |-> <<>>, read |-> summary_name]
        ELSE LET mv == makeflow_monitor_move_output_if_needed(mon, n1, q, files, oks)
                 c1 == IF mv.ret = MAKEFLOW_HOOK_SUCCESS
                       THEN category_accumulate_summary(c, n1.resources_measured)
                       ELSE c
             IN  [ret |-> mv.ret, node |-> n1, category |-> c1,
                  fs |-> mv.fs, renames |-> mv.renames, read |-> summary_name]

\* node_end that keeps the old measurement when the summary does not parse
node_end_keeps_measurement(mon, n, q, c, files, oks) ==
    LET log_prefix == set_log_prefix(mon, n)
        output_prefix == output_prefix_for(q, log_prefix)
        summary_name == output_prefix \o EXT_summary
        measured == rmsummary_parse_file_single(files, summary_name)
        n1 == [n EXCEPT !.resources_measured = measured]
    IN  IF measured = NoSummary
        THEN [ret |-> MAKEFLOW_HOOK_SUCCESS, node |-> n, category |-> c,
              fs |-> files, renames |-> <<>>, read |-> summary_name]
        ELSE LET c1 == category_accumulate_summary(c, n1.resources_measured)
                 mv == makeflow_monitor_move_output_if_needed(mon, n1, q, files, oks)
             IN  [ret |-> mv.ret, node |-> n1, category |-> c1,
                  fs |-> mv.fs, renames |-> mv.renames, read |-> summary_name]

\* lines 270-300
node_end(mon, n, q, c, files, oks) ==
    LET log_prefix == set_log_prefix(mon, n)
        output_prefix == output_prefix_for(q, log_prefix)
        summary_name == output_prefix \o EXT_summary
        measured == rmsummary_parse_file_single(files, summary_name)
        n1 == [n EXCEPT !.resources_measured = measured]
    IN  IF n1.resources_measured = NoSummary
        THEN [ret |-> MAKEFLOW_HOOK_SUCCESS, node |-> n1, category |-> c,
              fs |-> files, renames |-> <<>>, read |-> summary_name]
        ELSE LET c1 == category_accumulate_summary(c, n1.resources_measured)
                 mv == makeflow_monitor_move_output_if_needed(mon, n1, q, files, oks)
             IN  [ret |-> mv.ret, node |-> n1, category |-> c1,
                  fs |-> mv.fs, renames |-> mv.renames, read |-> summary_name]

\* every failed task taken for an overflow
is_overflow_any_failure(info) ==
    info.disk_allocation_exhausted \/ info.exit_code # EXIT_OK

\* lines 304-321: the failures the hook escalates
is_overflow(info) ==
    info.disk_allocation_exhausted \/ info.exit_code = RM_OVERFLOW

\* node_fail that resubmits without testing the label for the error sentinel
node_fail_always_waits(n, c, info) ==
    IF ~(info.disk_allocation_exhausted \/ info.exit_code = RM_OVERFLOW)
    THEN [ret |-> MAKEFLOW_HOOK_SUCCESS, node |-> n, emitted |-> <<>>, next |-> <<>>]
    ELSE LET next == category_next_label(c, n.resource_request, TRUE)
         IN  [ret |-> MAKEFLOW_HOOK_FAILURE,
              node |-> [n EXCEPT !.resource_request = next, !.state = "WAITING"],
              emitted |-> makeflow_log_state_change(<<>>, n, "WAITING"),
              next |-> <<next>>]

\* node_fail that sends the node back to WAITING without storing the new label
node_fail_forgets_label(n, c, info) ==
    IF ~(info.disk_allocation_exhausted \/ info.exit_code = RM_OVERFLOW)
    THEN [ret |-> MAKEFLOW_HOOK_SUCCESS, node |-> n, emitted |-> <<>>, next |-> <<>>]
    ELSE LET next == category_next_label(c, n.resource_request, TRUE)
         IN  IF next # CATEGORY_ALLOCATION_ERROR
             THEN [ret |-> MAKEFLOW_HOOK_FAILURE,
                   node |-> [n EXCEPT !.state = "WAITING"],
                   emitted |-> makeflow_log_state_change(<<>>, n, "WAITING"),
                   next |-> <<next>>]
             ELSE [ret |-> MAKEFLOW_HOOK_FAILURE, node |-> n, emitted |-> <<>>,
                   next |-> <<next>>]

\* lines 302-333
node_fail(n, c, info) ==
    IF ~is_overflow(info)
    THEN [ret |-> MAKEFLOW_HOOK_SUCCESS, node |-> n, emitted |-> <<>>, next |-> <<>>]
    ELSE LET next == category_next_label(c, n.resource_request, TRUE)
         IN  IF next # CATEGORY_ALLOCATION_ERROR
             THEN [ret |-> MAKEFLOW_HOOK_FAILURE,
                   node |-> [n EXCEPT !.resource_request = next, !.state = "WAITING"],
                   emitted |-> makeflow_log_state_change(<<>>, n, "WAITING"),
                   next |-> <<next>>]
             ELSE [ret |-> MAKEFLOW_HOOK_FAILURE, node |-> n, emitted |-> <<>>,
                   next |-> <<next>>]

----------------------------------------------------------------------------
(* State machine *)

NoArgs == [resource_monitor_log_dir |-> JxAbsent,
           resource_monitor_log_format |-> JxAbsent,
           resource_monitor_interval |-> JxAbsent,
           resource_monitor_enable_time_series |-> JxAbsent,
           resource_monitor_enable_list_files |-> JxAbsent]

\* The record of a call: its name, its result and the inputs it was given.
NoCall == [op |-> "none", ret |-> MAKEFLOW_HOOK_SUCCESS, args |-> NoArgs,
           located |-> NULL, info |-> NoInfo, next |-> <<>>, summary |-> "none",
           mkdir |-> "none", wrapper |-> NULL, read |-> NULL]

Called(op, ret) == [NoCall EXCEPT !.op = op, !.ret = ret]

InitNode(id) == [nodeid |-> id, state |-> "WAITING", resources_measured |-> NoSummary,
                 resource_request |-> CATEGORY_ALLOCATION_FIRST, failure_count |-> 0]

Init ==
    /\ pc = "start"
    /\ monitor = NoMonitor
    /\ queue \in SUBSET Features
    /\ node = InitNode(DagNodeId)
    /\ task = FreshTask
    /\ category = [count |-> 0, total |-> 0, top |-> LadderTop]
    /\ fs = << >>
    /\ dag_files = {}
    /\ call = NoCall
    /\ emitted = <<>>
    /\ renames = <<>>

CreateFrom(configs) ==
    /\ pc = "start"
    /\ \E args \in configs, located \in {NULL, S_exe_path} :
         LET r == create_result(args, located)
         IN  /\ monitor' = r.monitor
             /\ pc' = IF r.ret = MAKEFLOW_HOOK_SUCCESS THEN "created" ELSE "failed"
             /\ call' = [Called("create", r.ret) EXCEPT !.args = args,
                                                        !.located = located]
    /\ emitted' = <<>>
    /\ renames' = <<>>
    /\ UNCHANGED <<queue, node, task, category, fs, dag_files>>

Create == CreateFrom(RunArgs)

\* create alone, over every configuration
CreateAny == CreateFrom(Args)

MkdirOutcomes == {"ok", "ENOENT", "EEXIST", "EACCES"}

\* create_dir returns 1 when it has made the directory and 0 when it has not
create_dir_created(cd) == cd # 0

DagStart ==
    /\ pc = "created"
    /\ \E mk \in MkdirOutcomes, cd \in {0, 1} :
         LET r == dag_start(monitor, dag_files, mk, cd)
         IN  /\ dag_files' = r.dag_files
             /\ emitted' = r.emitted
             /\ call' = [Called("dag_start", r.ret) EXCEPT
                            !.mkdir = IF mk = "ENOENT"
                                      THEN (IF create_dir_created(cd)
                                            THEN "ENOENT_created"
                                            ELSE "ENOENT_failed")
                                      ELSE mk]
    /\ pc' = "running"
    /\ renames' = <<>>
    /\ UNCHANGED <<monitor, queue, node, task, category, fs>>

\* the attempt is over: the runtime drops the exit record of its task
Finished(t) == [t EXCEPT !.info = NoInfo]

\* the runtime marks a node whose attempt failed
Failed(n) == [n EXCEPT !.state = "FAILED", !.failure_count = @ + 1]

\* submission that stores the per-node prefix into the configuration
NodeSubmit_stores_log_prefix ==
    /\ pc = "running"
    /\ node.state = "WAITING"
    /\ \E wrapper \in {NULL, S_wrapper_path} :
         LET r == node_submit(monitor, node, queue, FreshTask, wrapper)
         IN  /\ task' = r.task
             /\ emitted' = r.emitted
             /\ call' = [Called("node_submit", r.ret) EXCEPT !.wrapper = wrapper]
             /\ node' = IF r.ret = MAKEFLOW_HOOK_SUCCESS
                        THEN [node EXCEPT !.state = "RUNNING"]
                        ELSE Failed(node)
    /\ monitor' = [monitor EXCEPT !.log_prefix = set_log_prefix(monitor, node)]
    /\ renames' = <<>>
    /\ UNCHANGED <<pc, queue, category, fs, dag_files>>

NodeSubmit ==
    /\ pc = "running"
    /\ node.state = "WAITING"
    /\ \E wrapper \in {NULL, S_wrapper_path} :
         LET r == node_submit(monitor, node, queue, FreshTask, wrapper)
         IN  /\ task' = r.task
             /\ emitted' = r.emitted
             /\ call' = [Called("node_submit", r.ret) EXCEPT !.wrapper = wrapper]
             /\ node' = IF r.ret = MAKEFLOW_HOOK_SUCCESS
                        THEN [node EXCEPT !.state = "RUNNING"]
                        ELSE Failed(node)
    /\ renames' = <<>>
    /\ UNCHANGED <<pc, monitor, queue, category, fs, dag_files>>

NoOutput == [kind |-> "none", value |-> 0]

SidecarOutputs == {NoOutput, GarbageFile} \cup {SummaryFile(v) : v \in Measurements}

\* the files the sidecar leaves: every artifact it was asked for, under the
\* prefix it was given
SidecarWrites(files, a, out) ==
    IF out = NoOutput THEN files
    ELSE LET f1 == WriteFile(files, a.output_prefix \o EXT_summary, out)
             f2 == IF a.time_series # 0
                   THEN WriteFile(f1, a.output_prefix \o EXT_series, DataFile)
                   ELSE f1
         IN  IF a.list_files # 0
             THEN WriteFile(f2, a.output_prefix \o EXT_files, DataFile)
             ELSE f2

\* how a task can end: normally, with the sidecar's overflow code, with an error
\* of the command, or with the batch system reporting its disk allocation exhausted
TaskInfos ==
    {[done |-> TRUE, disk_allocation_exhausted |-> FALSE, exit_code |-> code] :
        code \in ExitCodes}
    \cup {[done |-> TRUE, disk_allocation_exhausted |-> TRUE, exit_code |-> RM_TASK_ERROR]}

\* the batch system runs the wrapped command and reports how it ended
TaskRun ==
    /\ pc = "running"
    /\ node.state = "RUNNING"
    /\ ~task.info.done
    /\ \E info \in TaskInfos, out \in SidecarOutputs :
         /\ task' = [task EXCEPT !.info = info]
         /\ fs' = SidecarWrites(fs, task.monitor_args, out)
    /\ call' = Called("task_run", MAKEFLOW_HOOK_SUCCESS)
    /\ emitted' = <<>>
    /\ renames' = <<>>
    /\ UNCHANGED <<pc, monitor, queue, node, category, dag_files>>

TaskSucceeded(info) ==
    info.done /\ ~info.disk_allocation_exhausted /\ info.exit_code = EXIT_OK

SummaryStatus(files, name) ==
    IF ~FileExists(files, name) THEN "absent"
    ELSE IF files[path_resolve(name)].kind = "summary" THEN "parsed"
    ELSE "unparsable"

NodeEnd ==
    /\ pc = "running"
    /\ node.state = "RUNNING"
    /\ TaskSucceeded(task.info)
    /\ \E oks \in [1 .. 3 -> BOOLEAN] :
         LET r == node_end(monitor, node, queue, category, fs, oks)
         IN  /\ node' = IF r.ret = MAKEFLOW_HOOK_SUCCESS
                        THEN [r.node EXCEPT !.state = "COMPLETE"]
                        ELSE Failed(r.node)
             /\ category' = r.category
             /\ fs' = r.fs
             /\ renames' = r.renames
             /\ call' = [Called("node_end", r.ret) EXCEPT
                            !.summary = SummaryStatus(fs,
                                output_prefix_for(queue, set_log_prefix(monitor, node))
                                \o EXT_summary),
                            !.read = r.read]
    /\ task' = Finished(task)
    /\ emitted' = <<>>
    /\ UNCHANGED <<pc, monitor, queue, dag_files>>

NodeFail ==
    /\ pc = "running"
    /\ node.state = "RUNNING"
    /\ task.info.done
    /\ ~TaskSucceeded(task.info)
    /\ LET r == node_fail(node, category, task.info)
       IN  /\ node' = IF r.node.state = "WAITING" THEN r.node ELSE Failed(r.node)
           /\ emitted' = r.emitted
           /\ call' = [Called("node_fail", r.ret) EXCEPT !.info = task.info,
                                                         !.next = r.next]
    /\ task' = Finished(task)
    /\ renames' = <<>>
    /\ UNCHANGED <<pc, monitor, queue, category, fs, dag_files>>

\* the runtime retries a failed node
Retry ==
    /\ pc = "running"
    /\ node.state = "FAILED"
    /\ node.failure_count <= MaxRetry
    /\ node' = [node EXCEPT !.state = "WAITING"]
    /\ task' = FreshTask
    /\ call' = Called("retry", MAKEFLOW_HOOK_SUCCESS)
    /\ emitted' = <<>>
    /\ renames' = <<>>
    /\ UNCHANGED <<pc, monitor, queue, category, fs, dag_files>>

\* lines 99-110, at the teardown of the runtime once the workflow has ended
Destroy ==
    /\ pc = "running"
    /\ node.state \in {"COMPLETE", "FAILED"}
    /\ pc' = "destroyed"
    /\ monitor' = NoMonitor
    /\ call' = Called("destroy", MAKEFLOW_HOOK_SUCCESS)
    /\ emitted' = <<>>
    /\ renames' = <<>>
    /\ UNCHANGED <<queue, node, task, category, fs, dag_files>>

Next ==
    \/ Create
    \/ DagStart
    \/ NodeSubmit
    \/ TaskRun
    \/ NodeEnd
    \/ NodeFail
    \/ Retry
    \/ Destroy

\* how a task ends when it outgrows its allocation
OverflowInfos ==
    {info \in TaskInfos :
        info.disk_allocation_exhausted \/ info.exit_code = RM_OVERFLOW}

\* the batch system runs the wrapped command, which outgrows its allocation
TaskOverflows ==
    /\ pc = "running"
    /\ node.state = "RUNNING"
    /\ ~task.info.done
    /\ \E info \in OverflowInfos, out \in SidecarOutputs :
         /\ task' = [task EXCEPT !.info = info]
         /\ fs' = SidecarWrites(fs, task.monitor_args, out)
    /\ call' = Called("task_run", MAKEFLOW_HOOK_SUCCESS)
    /\ emitted' = <<>>
    /\ renames' = <<>>
    /\ UNCHANGED <<pc, monitor, queue, node, category, dag_files>>

\* a workflow whose every attempt ends in an overflow
NextOverflow ==
    \/ Create
    \/ DagStart
    \/ NodeSubmit
    \/ TaskOverflows
    \/ NodeFail

\* The runtime dispatches a node that waits, a dispatched task ends, and the
\* hook of an ended task is called.  Every NodeSubmit step leaves WAITING, so
\* weak fairness of NodeSubmit is that the node does not wait for ever.
SpecOverflow ==
    /\ Init
    /\ [][NextOverflow]_vars
    /\ WF_vars(TaskOverflows)
    /\ WF_vars(NodeFail)
    /\ []<>~(pc = "running" /\ node.state = "WAITING")

Spec == Init /\ [][Next]_vars

SpecCreate == Init /\ [][CreateAny]_vars

----------------------------------------------------------------------------
(* Properties *)

\* relocation has renames to make: the queue does not keep output directories
\* and the basename of the node's prefix differs from the prefix
RelocationRuns ==
    /\ ~batch_queue_supports_feature(queue, "output_directories")
    /\ path_basename(set_log_prefix(monitor, node)) # set_log_prefix(monitor, node)

\* the summary file node_end reads, by the state the call starts in
SummaryName == output_prefix_for(queue, set_log_prefix(monitor, node)) \o EXT_summary

\* C1: a node_fail call for a disk-exhausted or RM_OVERFLOW task consults the
\* next-label function once and returns failure; it emits WAITING for the node
\* and stores the returned label exactly when that label is not the error
\* sentinel, and otherwise emits nothing and leaves resource_request alone.
C1_EscalationLadder ==
    [][(/\ call'.op = "node_fail"
        /\ (call'.info.disk_allocation_exhausted \/ call'.info.exit_code = RM_OVERFLOW)) =>
        LET next == category_next_label(category, node.resource_request, TRUE)
        IN  /\ call'.ret = MAKEFLOW_HOOK_FAILURE
            /\ call'.next = <<next>>
            /\ IF next # CATEGORY_ALLOCATION_ERROR
               THEN /\ emitted' = <<NodeChange(node.nodeid, "WAITING")>>
                    /\ node'.resource_request = next
               ELSE /\ emitted' = <<>>
                    /\ node'.resource_request = node.resource_request]_vars

\* an overflow found the ladder exhausted after an earlier overflow had climbed it
C1_Witness ==
    /\ call.op = "node_fail"
    /\ call.info.exit_code = RM_OVERFLOW
    /\ call.next = <<CATEGORY_ALLOCATION_ERROR>>
    /\ node.resource_request = LadderTop
    /\ node.resource_request > CATEGORY_ALLOCATION_FIRST

\* C2: a node_fail call for a task that neither exhausted its disk allocation
\* nor exited with RM_OVERFLOW returns success, never consults the next-label
\* function, emits no state change, and leaves the node's resource_request and
\* measurement as they were.
C2_OtherFailurePassesThrough ==
    [][(/\ call'.op = "node_fail"
        /\ ~call'.info.disk_allocation_exhausted
        /\ call'.info.exit_code # RM_OVERFLOW) =>
        /\ call'.ret = MAKEFLOW_HOOK_SUCCESS
        /\ call'.next = <<>>
        /\ emitted' = <<>>
        /\ node'.resource_request = node.resource_request
        /\ node'.resources_measured = node.resources_measured]_vars

\* a task failed with an ordinary error of its command
C2_Witness ==
    /\ call.op = "node_fail"
    /\ call.info.exit_code = RM_TASK_ERROR
    /\ ~call.info.disk_allocation_exhausted
    /\ node.state = "FAILED"

\* C3: when the summary file is absent or does not parse, node_end returns
\* success, makes no rename, leaves the filesystem and the category aggregate
\* unchanged, and the node has no measurement afterwards.
C3_MissingSummary ==
    [][(call'.op = "node_end" /\ SummaryStatus(fs, SummaryName) # "parsed") =>
        /\ call'.ret = MAKEFLOW_HOOK_SUCCESS
        /\ renames' = <<>>
        /\ fs' = fs
        /\ category' = category
        /\ node'.resources_measured = NoSummary]_vars

\* node_end found no usable summary on a node that already had a measurement
\* folded into the aggregate by an earlier attempt
C3_Witness ==
    /\ call.op = "node_end"
    /\ call.summary \in {"absent", "unparsable"}
    /\ category.count >= 1
    /\ node.failure_count >= 1

\* C4: in node_end a failed rename is the last rename made and the hook then
\* returns failure; node_end returns failure only when relocation ran and its
\* last rename failed.
C4_RenameFailureAborts ==
    call.op = "node_end" =>
        /\ \A i \in 1 .. Len(renames) :
              ~renames[i].ok => (i = Len(renames) /\ call.ret = MAKEFLOW_HOOK_FAILURE)
        /\ call.ret = MAKEFLOW_HOOK_FAILURE =>
              /\ RelocationRuns
              /\ call.summary = "parsed"
              /\ renames # <<>>
              /\ ~renames[Len(renames)].ok

\* the .series rename failed while the file list was enabled too
C4_Witness ==
    /\ call.op = "node_end"
    /\ call.ret = MAKEFLOW_HOOK_FAILURE
    /\ monitor.enable_time_series # 0
    /\ monitor.enable_list_files # 0
    /\ Len(renames) = 2
    /\ renames[1].ok
    /\ ~renames[2].ok

\* the renames of a complete relocation, in order
ExpectedRenames ==
    LET log_prefix == set_log_prefix(monitor, node)
        output_prefix == path_basename(log_prefix)
        move(ext) == [old |-> output_prefix \o ext, new |-> log_prefix \o ext]
    IN  <<move(EXT_summary)>>
        \o (IF monitor.enable_time_series # 0 THEN <<move(EXT_series)>> ELSE <<>>)
        \o (IF monitor.enable_list_files # 0 THEN <<move(EXT_files)>> ELSE <<>>)

Relocated == call.op = "node_end" /\ call.summary = "parsed" /\ RelocationRuns

\* C5 as stated: whenever relocation runs it makes
\* 1 + enable_time_series + enable_list_files renames.
C5_Original ==
    Relocated =>
        Len(renames) = 1 + monitor.enable_time_series + monitor.enable_list_files

\* C5: whenever relocation runs, the renames made are the sequence .summary,
\* .series (when enable_time_series is non-zero), .files (when enable_list_files
\* is non-zero), each from the basename prefix to the full prefix, cut after the
\* first rename that fails; with no failure their number is 1 plus the number of
\* non-zero enable flags.
C5_RelocationCoverage ==
    Relocated =>
        /\ 1 <= Len(renames)
        /\ Len(renames) <= Len(ExpectedRenames)
        /\ \A i \in 1 .. Len(renames) :
              /\ renames[i].old = ExpectedRenames[i].old
              /\ renames[i].new = ExpectedRenames[i].new
        /\ (\A i \in 1 .. Len(renames) : renames[i].ok) =>
              Len(renames) = 1 + (IF monitor.enable_time_series # 0 THEN 1 ELSE 0)
                               + (IF monitor.enable_list_files # 0 THEN 1 ELSE 0)

\* all three artifacts were moved
C5_Witness ==
    /\ Relocated
    /\ call.ret = MAKEFLOW_HOOK_SUCCESS
    /\ Len(renames) = 3

\* C6: on a queue that advertises output_directories node_end makes no rename,
\* leaves the filesystem unchanged and returns success.
C6_OutputDirectoriesNoRelocation ==
    [][(call'.op = "node_end"
        /\ batch_queue_supports_feature(queue, "output_directories")) =>
        /\ renames' = <<>>
        /\ fs' = fs
        /\ call'.ret = MAKEFLOW_HOOK_SUCCESS]_vars

\* a summary was parsed on such a queue with the other artifacts enabled
C6_Witness ==
    /\ call.op = "node_end"
    /\ call.summary = "parsed"
    /\ batch_queue_supports_feature(queue, "output_directories")
    /\ monitor.enable_time_series # 0
    /\ monitor.enable_list_files # 0

\* C7: with log_dir "." on a queue without output_directories, node_end makes
\* no rename and returns success.
C7_DotLogDirNoRelocation ==
    (/\ call.op = "node_end"
     /\ monitor.log_dir = S_dot
     /\ ~batch_queue_supports_feature(queue, "output_directories")) =>
        /\ renames = <<>>
        /\ call.ret = MAKEFLOW_HOOK_SUCCESS

\* C8: create fails exactly when log_dir is missing, or the interval supplied
\* is an integer below 1, or the sidecar binary is not found.
C8_CreateFailsIff ==
    call.op = "create" =>
        (call.ret = MAKEFLOW_HOOK_FAILURE <=>
            \/ call.args.resource_monitor_log_dir.type # "string"
            \/ /\ call.args.resource_monitor_interval.type = "integer"
               /\ call.args.resource_monitor_interval.i < 1
            \/ call.located = NULL)

\* C9: once create has succeeded, log_dir is a non-empty string, interval is
\* at least 1 and exe is set.
C9_ConfigInvariant ==
    pc \in {"created", "running"} =>
        /\ monitor.log_dir # NULL
        /\ monitor.log_dir # <<>>
        /\ monitor.interval >= 1
        /\ monitor.exe # NULL

\* C10 as stated: after create succeeds log_prefix holds exactly one %% marker.
C10_Original ==
    (call.op = "create" /\ call.ret = MAKEFLOW_HOOK_SUCCESS) =>
        CountMarkers(monitor.log_prefix) = 1

\* C10: after create succeeds log_prefix is log_dir, '/', log_format (the
\* default format when none is supplied), so it holds as many %% markers as
\* log_dir and log_format together: exactly one with the default format and a
\* log_dir free of markers.
C10_LogPrefixMarkers ==
    (call.op = "create" /\ call.ret = MAKEFLOW_HOOK_SUCCESS) =>
        /\ monitor.log_format =
              (IF call.args.resource_monitor_log_format.type = "string"
               THEN call.args.resource_monitor_log_format.s
               ELSE DEFAULT_MONITOR_LOG_FORMAT)
        /\ monitor.log_prefix = monitor.log_dir \o <<"/">> \o monitor.log_format
        /\ CountMarkers(monitor.log_prefix) =
              CountMarkers(monitor.log_dir) + CountMarkers(monitor.log_format)
        /\ (/\ call.args.resource_monitor_log_format.type # "string"
            /\ CountMarkers(monitor.log_dir) = 0) =>
              CountMarkers(monitor.log_prefix) = 1

\* create succeeded with the default format under an ordinary directory
C10_Witness ==
    /\ call.op = "create"
    /\ call.ret = MAKEFLOW_HOOK_SUCCESS
    /\ call.args.resource_monitor_log_format.type # "string"
    /\ monitor.log_dir = S_nested
    /\ CountMarkers(monitor.log_prefix) = 1

\* the per-node prefix in full: log_dir, '/', and the format with the node's id
FullPrefix == set_log_prefix(monitor, node)

\* C11: every node_submit call leaves on the task exactly these outputs, all
\* of type intermediate and all under the full per-node prefix whatever the
\* queue supports: prefix.summary, prefix.series iff enable_time_series is
\* set, prefix.files iff enable_list_files is set.
C11_DeclaredOutputs ==
    call.op = "node_submit" =>
        /\ \A o \in task.outputs : o.type = DAG_FILE_TYPE_INTERMEDIATE
        /\ {o.local : o \in task.outputs} \subseteq
              {FullPrefix \o EXT_summary, FullPrefix \o EXT_series,
               FullPrefix \o EXT_files}
        /\ \E o \in task.outputs : o.local = FullPrefix \o EXT_summary
        /\ (\E o \in task.outputs : o.local = FullPrefix \o EXT_series)
              <=> (monitor.enable_time_series # 0)
        /\ (\E o \in task.outputs : o.local = FullPrefix \o EXT_files)
              <=> (monitor.enable_list_files # 0)
        /\ Cardinality(task.outputs) = Cardinality({o.local : o \in task.outputs})

\* node_submit on a queue without output directories, with the time series
\* enabled by a value other than 1 and the file list disabled
C11_Witness ==
    /\ call.op = "node_submit"
    /\ ~batch_queue_supports_feature(queue, "output_directories")
    /\ monitor.enable_time_series = 2
    /\ monitor.enable_list_files = 0
    /\ path_basename(FullPrefix) # FullPrefix
    /\ Cardinality(task.outputs) = 2

\* C12: every node_submit call declares the sidecar binary as a task input
\* (local name exe, remote name cctools-monitor, type global) whatever the
\* queue supports, and the executable handed to the command writer is
\* ./cctools-monitor on a queue that advertises remote_rename and the local
\* path exe otherwise.
C12_SidecarExecutable ==
    call.op = "node_submit" =>
        /\ \E i \in task.inputs :
              /\ i.local = monitor.exe
              /\ i.remote = <<"c", "c", "t", "o", "o", "l", "s", "-",
                              "m", "o", "n", "i", "t", "o", "r">>
              /\ i.type = DAG_FILE_TYPE_GLOBAL
        /\ ("remote_rename" \in queue) =>
              task.monitor_args.executable =
                 <<".", "/", "c", "c", "t", "o", "o", "l", "s", "-",
                   "m", "o", "n", "i", "t", "o", "r">>
        /\ ("remote_rename" \notin queue) =>
              task.monitor_args.executable = monitor.exe

\* node_submit on a queue that renames inputs remotely: the command names the
\* remote copy, which differs from the local path
C12_Witness ==
    /\ call.op = "node_submit"
    /\ call.ret = MAKEFLOW_HOOK_SUCCESS
    /\ "remote_rename" \in queue
    /\ task.monitor_args.executable # monitor.exe
    /\ monitor.exe = S_exe_path

\* the prefix C13 names: the full per-node prefix on a queue that advertises
\* output_directories, its basename on any other queue
C13_Prefix ==
    IF "output_directories" \in queue THEN FullPrefix ELSE path_basename(FullPrefix)

\* C13: for a configuration, node and queue, the output prefix node_submit
\* hands to the sidecar, the prefix node_end reads .summary from and the
\* source prefix of every rename of the relocation are one value: the full
\* per-node prefix when the queue advertises output_directories, its basename
\* otherwise.
C13_OnePrefix ==
    /\ call.op = "node_submit" => task.monitor_args.output_prefix = C13_Prefix
    /\ call.op = "node_end" =>
          /\ call.read = C13_Prefix \o EXT_summary
          /\ call.read = task.monitor_args.output_prefix \o EXT_summary
          /\ \A i \in 1 .. Len(renames) :
                renames[i].old \in {C13_Prefix \o EXT_summary,
                                    C13_Prefix \o EXT_series,
                                    C13_Prefix \o EXT_files}

\* node_end on a queue without output directories read the summary the
\* sidecar wrote under the basename and renamed from there
C13_Witness ==
    /\ call.op = "node_end"
    /\ "output_directories" \notin queue
    /\ call.summary = "parsed"
    /\ Len(renames) >= 2
    /\ renames[1].old = task.monitor_args.output_prefix \o EXT_summary
    /\ task.monitor_args.output_prefix # FullPrefix

Extensions == {EXT_summary, EXT_series, EXT_files}

\* the artifacts the sidecar of this task was asked for
EnabledExtensions ==
    {EXT_summary}
    \cup (IF task.monitor_args.time_series # 0 THEN {EXT_series} ELSE {})
    \cup (IF task.monitor_args.list_files # 0 THEN {EXT_files} ELSE {})

\* a submitted task whose sidecar has left every artifact it was asked for
\* under the prefix it was given, and whose node_end then parses the summary
\* and returns success
C14_Premise ==
    /\ call'.op = "node_end"
    /\ call'.ret = MAKEFLOW_HOOK_SUCCESS
    /\ call'.summary = "parsed"
    /\ \A e \in EnabledExtensions :
          FileExists(fs, task.monitor_args.output_prefix \o e)

\* C14 as stated: after such a node_end every declared output exists at its
\* declared path and, on a queue without output_directories, nothing is left
\* at the basename location.
C14_Original ==
    [][C14_Premise =>
        /\ \A o \in task.outputs : FileExists(fs', o.local)
        /\ "output_directories" \notin queue =>
              \A e \in Extensions :
                 ~FileExists(fs', path_basename(FullPrefix) \o e)]_vars

\* C14: after such a node_end every declared output exists at its declared
\* path; on a queue without output_directories nothing is left at the basename
\* location when that location is another file than the declared path, and
\* when log_dir is the working directory the two are one file, which stays.
C14_EndToEnd ==
    [][C14_Premise =>
        /\ task.outputs # {}
        /\ \A o \in task.outputs : FileExists(fs', o.local)
        /\ "output_directories" \notin queue =>
              \A e \in Extensions :
                 IF path_resolve(path_basename(FullPrefix) \o e)
                       # path_resolve(FullPrefix \o e)
                 THEN ~FileExists(fs', path_basename(FullPrefix) \o e)
                 ELSE FileExists(fs', path_basename(FullPrefix) \o e)
                         <=> (e \in EnabledExtensions)]_vars

\* a node ended well on a queue without output directories: summary and time
\* series were moved from the working directory into the log directory
C14_Witness ==
    /\ call.op = "node_end"
    /\ call.ret = MAKEFLOW_HOOK_SUCCESS
    /\ call.summary = "parsed"
    /\ "output_directories" \notin queue
    /\ monitor.log_dir = S_logs
    /\ monitor.enable_time_series # 0
    /\ Len(renames) >= 2
    /\ FileExists(fs, FullPrefix \o EXT_series)
    /\ ~FileExists(fs, path_basename(FullPrefix) \o EXT_series)

\* C15: node_submit returns failure exactly when wrapper generation returns
\* no path.  On success the task's command is the wrapper path, the wrapper
\* is declared as an input of type temp and one EXISTS state change is emitted
\* for it; on failure no wrapper input is declared and no state change is
\* emitted.
C15_WrapperOutcome ==
    call.op = "node_submit" =>
        /\ (call.ret = MAKEFLOW_HOOK_FAILURE) <=> (call.wrapper = NULL)
        /\ call.ret \in {MAKEFLOW_HOOK_SUCCESS, MAKEFLOW_HOOK_FAILURE}
        /\ call.ret = MAKEFLOW_HOOK_SUCCESS =>
              /\ task.command = call.wrapper
              /\ \E i \in task.inputs : /\ i.local = call.wrapper
                                        /\ i.remote = call.wrapper
                                        /\ i.type = DAG_FILE_TYPE_TEMP
              /\ emitted = <<[kind |-> "file", name |-> call.wrapper, node |-> 0,
                              state |-> "EXISTS"]>>
        /\ call.ret = MAKEFLOW_HOOK_FAILURE =>
              /\ \A i \in task.inputs : i.type # DAG_FILE_TYPE_TEMP
              /\ emitted = <<>>

\* wrapper generation failed on a retried node: node_submit returned failure
\* with the sidecar input declared and nothing else
C15_Witness ==
    /\ call.op = "node_submit"
    /\ call.wrapper = NULL
    /\ call.ret = MAKEFLOW_HOOK_FAILURE
    /\ node.failure_count = 2
    /\ Cardinality(task.inputs) = 1
    /\ emitted = <<>>

\* C16: the configuration is written during create only: every dag_start,
\* node_submit, node_end (with its relocation) and node_fail call leaves every
\* field of the configuration as it was.
C16_ConfigFrame ==
    [][call'.op \in {"dag_start", "node_submit", "node_end", "node_fail"} =>
        /\ monitor.allocated
        /\ monitor' = monitor]_vars

\* a node was submitted twice and ended with a relocation under a configuration
\* that create filled from user options
C16_Witness ==
    /\ call.op = "node_end"
    /\ Len(renames) >= 1
    /\ node.failure_count >= 1
    /\ monitor.allocated
    /\ monitor.log_dir = S_logs
    /\ monitor.log_format = S_fmt_plain
    /\ monitor.log_prefix = S_logs \o <<"/">> \o S_fmt_plain
    /\ monitor.enable_time_series = 2

\* C17: dag_start returns success for every outcome of the filesystem.  It
\* registers log_dir in the file table and emits one EXISTS state change for
\* it exactly when this call created the directory (mkdir succeeded, or mkdir
\* failed with ENOENT and the recursive creation succeeded); it emits nothing
\* when the directory existed, the recursive creation failed, or mkdir failed
\* otherwise.
C17_DagStart ==
    call.op = "dag_start" =>
        /\ call.ret = MAKEFLOW_HOOK_SUCCESS
        /\ call.mkdir \in {"ok", "ENOENT_created"} =>
              /\ monitor.log_dir \in dag_files
              /\ emitted = <<[kind |-> "file", name |-> monitor.log_dir, node |-> 0,
                              state |-> "EXISTS"]>>
        /\ call.mkdir \in {"EEXIST", "ENOENT_failed", "EACCES"} =>
              /\ monitor.log_dir \notin dag_files
              /\ emitted = <<>>
        /\ call.mkdir \in {"ok", "ENOENT_created", "EEXIST", "ENOENT_failed", "EACCES"}

\* the parent of log_dir was missing and the recursive creation made it
C17_Witness ==
    /\ call.op = "dag_start"
    /\ call.mkdir = "ENOENT_created"
    /\ monitor.log_dir = S_logs
    /\ S_logs \in dag_files
    /\ Len(emitted) = 1

C19_EscalationTerminates ==
    /\ [][node'.resource_request >= node.resource_request]_vars
    /\ [][(call'.op = "node_fail" /\ emitted' # <<>>) =>
            /\ emitted' = <<[kind |-> "node", name |-> <<>>, node |-> node.nodeid,
                             state |-> "WAITING"]>>
            /\ node'.state = "WAITING"
            /\ node'.resource_request > node.resource_request
            /\ node'.resource_request <= LadderTop]_vars
    /\ [][(call'.op = "node_fail" /\ emitted' = <<>>) =>
            /\ node'.state = "FAILED"
            /\ node'.resource_request = node.resource_request]_vars
    /\ <>[](pc # "running" \/ node.state = "FAILED")

\* the ladder was climbed to its top and the next overflow left the node failed
C19_Witness ==
    /\ call.op = "node_fail"
    /\ call.ret = MAKEFLOW_HOOK_FAILURE
    /\ call.next = <<CATEGORY_ALLOCATION_ERROR>>
    /\ emitted = <<>>
    /\ node.state = "FAILED"
    /\ node.resource_request = LadderTop
    /\ node.resource_request > CATEGORY_ALLOCATION_FIRST

\* ids of other nodes of the workflow
OtherNodeIds == {0, 2, 17, 27, 112}

\* the per-node prefix of the node with this id
PrefixOf(id) == set_log_prefix(monitor, InitNode(id))

\* one node's calls under the configuration of this state: submission, the
\* sidecar writing what it was asked for, then node_end with its relocation
C20_Submitted ==
    node_submit(monitor, InitNode(DagNodeId), queue, FreshTask, S_wrapper_path)

C20_Ended ==
    node_end(monitor, InitNode(DagNodeId), queue, category,
             SidecarWrites(fs, C20_Submitted.task.monitor_args,
                           SummaryFile(CHOOSE v \in Measurements : TRUE)),
             [i \in 1 .. 3 |-> TRUE])

\* C20 as stated: under a configuration create accepted, two nodes with
\* distinct ids get distinct prefixes.
C20_Original ==
    (call.op = "create" /\ call.ret = MAKEFLOW_HOOK_SUCCESS) =>
        \A a, b \in NodeIds \cup OtherNodeIds :
            a # b => PrefixOf(a) # PrefixOf(b)

\* C20: under a configuration create accepted, node_submit, node_end and the
\* relocation of a node work from one prefix; two nodes with distinct ids get
\* distinct prefixes, and so distinct declared paths, when log_prefix holds a
\* %% marker, and distinct basenames, and so distinct paths to read and rename
\* from, when its final component holds one; with no marker in log_prefix all
\* nodes share one prefix.
C20_PrefixPerNode ==
    (call.op = "create" /\ call.ret = MAKEFLOW_HOOK_SUCCESS) =>
        /\ \A a, b \in NodeIds \cup OtherNodeIds :
              a # b =>
                 /\ CountMarkers(monitor.log_prefix) >= 1 =>
                       /\ PrefixOf(a) # PrefixOf(b)
                       /\ \A e1, e2 \in Extensions :
                             PrefixOf(a) \o e1 # PrefixOf(b) \o e2
                 /\ CountMarkers(path_basename(monitor.log_prefix)) >= 1 =>
                       path_basename(PrefixOf(a)) # path_basename(PrefixOf(b))
                 /\ CountMarkers(monitor.log_prefix) = 0 =>
                       PrefixOf(a) = PrefixOf(b)
        /\ \A o \in C20_Submitted.task.outputs :
              \E e \in Extensions : o.local = PrefixOf(DagNodeId) \o e
        /\ C20_Submitted.task.monitor_args.output_prefix
              \in {PrefixOf(DagNodeId), path_basename(PrefixOf(DagNodeId))}
        /\ C20_Ended.read =
              C20_Submitted.task.monitor_args.output_prefix \o EXT_summary
        /\ \A i \in 1 .. Len(C20_Ended.renames) :
              \E e \in Extensions :
                 /\ C20_Ended.renames[i].old = path_basename(PrefixOf(DagNodeId)) \o e
                 /\ C20_Ended.renames[i].new = PrefixOf(DagNodeId) \o e

\* create accepted the default format under a nested directory: nodes 7 and
\* 17 get the prefixes a/b/resource-rule-7 and a/b/resource-rule-17
C20_Witness ==
    /\ call.op = "create"
    /\ call.ret = MAKEFLOW_HOOK_SUCCESS
    /\ monitor.log_dir = S_nested
    /\ monitor.log_format = DEFAULT_MONITOR_LOG_FORMAT
    /\ CountMarkers(path_basename(monitor.log_prefix)) = 1
    /\ PrefixOf(7) = S_nested \o <<"/">>
                       \o <<"r", "e", "s", "o", "u", "r", "c", "e", "-", "r", "u", "l", "e", "-", "7">>
    /\ PrefixOf(17) # PrefixOf(7)
    /\ "output_directories" \notin queue
    /\ Len(C20_Ended.renames) >= 1

====
